---- MODULE Spec2Model ----
(***************************************************************************)
(* Model of bestfirst.py: the lazily-invalidating PriorityQueue built on   *)
(* heapq, and the FrontierBestFirst / FrontierAStar / FrontierGreedy       *)
(* classes that wrap it.                                                   *)
(*                                                                         *)
(* A heap entry is the Python list [priority, -count, element]; it is      *)
(* modelled as a record with the fields pri, key and el.  entry_finder     *)
(* holds a reference to the very list object that sits in the heap, and    *)
(* change_priority mutates entry[2] through that reference: the reference  *)
(* is modelled by the value of the entry, which names one heap entry       *)
(* because an entry that is referenced carries its element, and at most    *)
(* one such entry per element is in the heap when add is called on         *)
(* untracked elements only.                                                *)
(***************************************************************************)
EXTENDS Integers, Sequences, FiniteSets, TLC

\* ------------------------------------------------------------------ bounds
MaxHeap == 4          \* longest heap list explored
MaxCount == 4         \* largest number of values drawn from one counter

\* ------------------------------------------------------------- input sets
States == {"A", "B", "C"}          \* payloads, equal iff same name
Pris == {2, 3, 5}                  \* path costs of the states handed in
QPris == {3, 5}                    \* priorities handed to the queue directly
HVals == {2, 4}                    \* values of the supplied heuristic
PlanLens == {3}                 \* len(state.extract_plan(...))
Strategies == {"BestFirst", "AStar", "Greedy"}
Goals == {"goal"}

None == "None"
NoPri == -1
NoEntry == [pri |-> NoPri, key |-> 1, el |-> None]
NoArg == [el |-> None, pri |-> NoPri, path_cost |-> NoPri, h |-> NoPri, len |-> NoPri]

\* the state objects handed to the frontier: equality and hash by el only
StateObjs ==
    {[NoArg EXCEPT !.el = e, !.path_cost = c, !.h = hv, !.len = l] :
        e \in States, c \in Pris, hv \in HVals, l \in PlanLens}

VARIABLES
    heap,              \* PriorityQueue.heap: the heapq list, index 1 is heap[0]
    entry_finder,      \* PriorityQueue.entry_finder: element -> its entry
    counter,           \* next value of PriorityQueue.counter
    goal_description,  \* FrontierBestFirst.goal_description
    strategy,          \* class of the frontier object
    op,                \* name of the last call
    arg,               \* arguments of the last call
    ret,               \* what the last call returned, or the error it raised
    popPri,            \* entry[0] of the entry the last pop returned, else NoPri
    skipped,           \* number of invalidated entries the last pop discarded
    popRun,            \* history: successful pops since the last other call
    added,             \* history: elements added and not popped since reset
    insSeq,            \* history: those elements, oldest insertion first
    before,            \* history: size() and len(heap) when the last call began
    got,               \* what the last get_priority call returned, else NoPri
    given,             \* history: priority last handed in for each added element
    changes,           \* history: change_priority calls done since the reset
    scen               \* history: progress through the A5, B3, A2 scenario

vars == <<heap, entry_finder, counter, goal_description, strategy,
          op, arg, ret, popPri, skipped, popRun, added, insSeq, before,
          got, given, changes, scen>>

\* list order that stops at the priority
EntryLt_PriorityOnly(a, b) == a.pri < b.pri

\* ------------------------------------------------------------ list order
\* Python compares the lists position by position.  Position 2 (the element)
\* is reached only when priority and count both tie.
EntryLt(a, b) ==
    \/ a.pri < b.pri
    \/ a.pri = b.pri /\ a.key < b.key

\* ------------------------------------------------------------------ heapq
\* heapq._siftdown(heap, startpos, pos), 1-based positions
RECURSIVE SiftDown(_, _, _, _)
SiftDown(h, startpos, pos, newitem) ==
    IF pos > startpos /\ EntryLt(newitem, h[pos \div 2])
    THEN SiftDown([h EXCEPT ![pos] = h[pos \div 2]], startpos, pos \div 2, newitem)
    ELSE [h EXCEPT ![pos] = newitem]

\* the loop always descending to the left child
RECURSIVE SiftUpLoop_LeftChild(_, _)
SiftUpLoop_LeftChild(h, pos) ==
    IF 2 * pos <= Len(h)
    THEN SiftUpLoop_LeftChild([h EXCEPT ![pos] = h[2 * pos]], 2 * pos)
    ELSE [h |-> h, pos |-> pos]

\* the while loop of heapq._siftup: returns the list and the final position
RECURSIVE SiftUpLoop(_, _)
SiftUpLoop(h, pos) ==
    LET childpos == 2 * pos
        rightpos == childpos + 1
        c == IF rightpos <= Len(h) /\ ~EntryLt(h[childpos], h[rightpos])
             THEN rightpos ELSE childpos
    IN  IF childpos <= Len(h)
        THEN SiftUpLoop([h EXCEPT ![pos] = h[c]], c)
        ELSE [h |-> h, pos |-> pos]

\* heapq._siftup(heap, pos)
SiftUp(h, pos) ==
    LET newitem == h[pos]
        r == SiftUpLoop(h, pos)
    IN  SiftDown(r.h, pos, r.pos, newitem)

\* heapq.heappush(heap, item)
HeapPush(h, item) == SiftDown(Append(h, item), 1, Len(h) + 1, item)

\* heapq.heappop(heap) on a non-empty list: the item returned and the list left
HeapPop(h) ==
    LET lastelt == h[Len(h)]
        rest == SubSeq(h, 1, Len(h) - 1)
    IN  IF rest # <<>>
        THEN [item |-> h[1], h |-> SiftUp([rest EXCEPT ![1] = lastelt], 1)]
        ELSE [item |-> lastelt, h |-> rest]

\* ---------------------------------------------------------------- helpers
\* an old entry that keeps its element
Invalidate_Nothing(h, entry) == h

\* entry[2] = None through the reference held by entry_finder
Invalidate(h, entry) ==
    [i \in 1..Len(h) |-> IF h[i] = entry THEN [h[i] EXCEPT !.el = None] ELSE h[i]]

Remove(seq, x) == SelectSeq(seq, LAMBDA y : y # x)

Drop_Keep(f, x) == f

Drop(f, x) == [y \in (DOMAIN f) \ {x} |-> f[y]]

Put(f, x, v) == [y \in (DOMAIN f) \cup {x} |-> IF y = x THEN v ELSE f[y]]

Ok(v) == [val |-> v, err |-> "none"]
Raise(e) == [val |-> None, err |-> e]

\* ---------------------------------------------------------- PriorityQueue
\* size that counts the heap list
Size_HeapLen == Len(heap)

\* PriorityQueue.size
Size == Cardinality(DOMAIN entry_finder)

\* get_priority that reads position 1 of the entry
GetPriority_Key(element) ==
    IF element \notin DOMAIN entry_finder THEN NoPri
    ELSE entry_finder[element].key

\* PriorityQueue.get_priority
GetPriority(element) ==
    IF element \notin DOMAIN entry_finder THEN NoPri
    ELSE entry_finder[element].pri

\* add with the count stored without the minus sign
QueueAdd_PlainCount(h, ef, cnt, element, priority) ==
    LET entry == [pri |-> priority, key |-> cnt, el |-> element]
    IN  [heap |-> HeapPush(h, entry),
         entry_finder |-> Put(ef, element, entry),
         counter |-> cnt + 1,
         err |-> "none"]

\* PriorityQueue.add: its effect on heap, entry_finder and counter
QueueAdd(h, ef, cnt, element, priority) ==
    LET entry == [pri |-> priority, key |-> -cnt, el |-> element]
    IN  [heap |-> HeapPush(h, entry),
         entry_finder |-> Put(ef, element, entry),
         counter |-> cnt + 1,
         err |-> "none"]

\* change_priority that inserts an element it does not find
QueueChangePriority_Upsert(h, ef, cnt, element, new_priority) ==
    IF element \notin DOMAIN ef
    THEN QueueAdd(h, ef, cnt, element, new_priority)
    ELSE QueueAdd(Invalidate(h, ef[element]), Drop(ef, element), cnt,
                  element, new_priority)

\* PriorityQueue.change_priority: its effect, or the KeyError of
\* entry_finder.pop(element)
QueueChangePriority(h, ef, cnt, element, new_priority) ==
    IF element \notin DOMAIN ef
    THEN [heap |-> h, entry_finder |-> ef, counter |-> cnt, err |-> "KeyError"]
    ELSE QueueAdd(Invalidate(h, ef[element]), Drop(ef, element), cnt,
                  element, new_priority)

\* the loop leaving with whatever entry heappop gave first
PopLoop_NoSkip(h, n) ==
    IF h = <<>>
    THEN [entry |-> NoEntry, heap |-> h, skipped |-> n, err |-> "IndexError"]
    ELSE [entry |-> HeapPop(h).item, heap |-> HeapPop(h).h, skipped |-> n,
          err |-> "none"]

\* the loop of PriorityQueue.pop: heappop until a live entry or IndexError
RECURSIVE PopLoop(_, _)
PopLoop(h, n) ==
    IF h = <<>>
    THEN [entry |-> NoEntry, heap |-> h, skipped |-> n, err |-> "IndexError"]
    ELSE LET r == HeapPop(h)
         IN  IF r.item.el # None
             THEN [entry |-> r.item, heap |-> r.h, skipped |-> n, err |-> "none"]
             ELSE PopLoop(r.h, n + 1)

\* pop that leaves the index as it is
QueuePop_KeepIndex(h, ef) ==
    LET r == PopLoop(h, 0)
    IN  IF r.err # "none"
        THEN [heap |-> r.heap, entry_finder |-> ef, val |-> None,
              entry |-> NoEntry, skipped |-> r.skipped, err |-> r.err]
        ELSE [heap |-> r.heap, entry_finder |-> ef,
              val |-> r.entry.el, entry |-> r.entry, skipped |-> r.skipped,
              err |-> "none"]

\* PriorityQueue.pop: its effect and result, or the error raised
QueuePop(h, ef) ==
    LET r == PopLoop(h, 0)
    IN  IF r.err # "none"
        THEN [heap |-> r.heap, entry_finder |-> ef, val |-> None,
              entry |-> NoEntry, skipped |-> r.skipped, err |-> r.err]
        ELSE IF r.entry.el \notin DOMAIN ef
        THEN [heap |-> r.heap, entry_finder |-> ef, val |-> None,
              entry |-> NoEntry, skipped |-> r.skipped, err |-> "KeyError"]
        ELSE [heap |-> r.heap, entry_finder |-> Drop(ef, r.entry.el),
              val |-> r.entry.el, entry |-> r.entry, skipped |-> r.skipped,
              err |-> "none"]

\* ------------------------------------------------------ cost strategies
\* g that is 0 whatever the class
G_Zero(cls, state) == 0

\* g of the class cls: FrontierBestFirst.g, FrontierAStar.g, FrontierGreedy.g
G(cls, state) ==
    CASE cls = "BestFirst" -> state.path_cost
      [] cls = "AStar" -> state.len
      [] cls = "Greedy" -> 0

\* h of the class cls: FrontierBestFirst.h, FrontierAStar.h, FrontierGreedy.h
\* (the two heuristics are external: the zero heuristic gives 0, the
\* advanced one the value h the state carries)
H(cls, state) ==
    CASE cls = "BestFirst" -> 0
      [] cls = "AStar" -> 0
      [] cls = "Greedy" -> state.h

\* FrontierBestFirst.f, inherited unchanged by both subclasses: it names
\* FrontierBestFirst.h and FrontierBestFirst.g, whatever the class of self
F(cls, state) == H("BestFirst", state) + G("BestFirst", state)

\* contains that finds nothing
Contains_Never(state) == FALSE

\* FrontierBestFirst.contains
Contains(state) == GetPriority(state.el) # NoPri

\* FrontierBestFirst.size
FrontierSize == Size

\* FrontierBestFirst.is_empty
IsEmpty == (Size = 0)

\* ------------------------------------------------------------- histories
\* the scenario monitor: add A at 5, add B at 3, add A at 2, pop, pop on a
\* frontier that has just been constructed or prepared
ScenNext(o, a) ==
    CASE scen = 0 /\ o = "Frontier.add" /\ a.el = "A" /\ a.pri = 5 -> 1
      [] scen = 1 /\ o = "Frontier.add" /\ a.el = "B" /\ a.pri = 3 -> 2
      [] scen = 2 /\ o = "Frontier.add" /\ a.el = "A" /\ a.pri = 2 -> 3
      [] scen = 3 /\ o = "Frontier.pop" -> 4
      [] scen = 4 /\ o = "Frontier.pop" -> 5
      [] OTHER -> -1

\* the record of a call that is not a pop
Called(o, a, e) ==
    /\ op' = o
    /\ arg' = a
    /\ ret' = IF e = "none" THEN Ok(None) ELSE Raise(e)
    /\ popPri' = NoPri
    /\ skipped' = 0
    /\ popRun' = 0
    /\ before' = [size |-> Size, heap |-> Len(heap)]
    /\ scen' = IF o = "Frontier.prepare" THEN 0 ELSE ScenNext(o, a)

\* an element has been inserted by add (directly or inside change_priority)
Inserted(element, priority) ==
    /\ added' = added \cup {element}
    /\ insSeq' = Append(Remove(insSeq, element), element)
    /\ given' = Put(given, element, priority)

\* ---------------------------------------------------------------- states
\* state after __init__, but for the class of the frontier
Init0 ==
    /\ heap = <<>>
    /\ entry_finder = <<>>
    /\ counter = 0
    /\ goal_description = None
    /\ op = "init"
    /\ arg = NoArg
    /\ ret = Ok(None)
    /\ popPri = NoPri
    /\ skipped = 0
    /\ popRun = 0
    /\ added = {}
    /\ insSeq = <<>>
    /\ before = [size |-> 0, heap |-> 0]
    /\ got = NoPri
    /\ given = <<>>
    /\ changes = 0
    /\ scen = 0

\* the queue of a FrontierBestFirst, driven method by method
Init == Init0 /\ strategy = "BestFirst"

\* a frontier of any of the three classes
InitFrontier == Init0 /\ strategy \in Strategies

\* --------------------------------------------------------------- actions
\* add that does not advance the counter
Add_NoIncrement(element, priority) ==
    /\ Len(heap) < MaxHeap
    /\ counter < MaxCount
    /\ LET q == QueueAdd(heap, entry_finder, counter, element, priority)
       IN  /\ heap' = q.heap
           /\ entry_finder' = q.entry_finder
           /\ counter' = counter
    /\ Called("add", [NoArg EXCEPT !.el = element, !.pri = priority], "none")
    /\ got' = NoPri
    /\ Inserted(element, priority)
    /\ UNCHANGED <<goal_description, strategy, changes>>

\* PriorityQueue.add(element, priority)
Add(element, priority) ==
    /\ Len(heap) < MaxHeap
    /\ counter < MaxCount
    /\ LET q == QueueAdd(heap, entry_finder, counter, element, priority)
       IN  /\ heap' = q.heap
           /\ entry_finder' = q.entry_finder
           /\ counter' = q.counter
    /\ Called("add", [NoArg EXCEPT !.el = element, !.pri = priority], "none")
    /\ got' = NoPri
    /\ Inserted(element, priority)
    /\ UNCHANGED <<goal_description, strategy, changes>>

\* change_priority that rewrites the priority of the entry where it sits
ChangePriority_InPlace(element, new_priority) ==
    LET ok == element \in DOMAIN entry_finder
    IN  /\ heap' = IF ok
                   THEN [i \in 1..Len(heap) |->
                           IF heap[i] = entry_finder[element]
                           THEN [heap[i] EXCEPT !.pri = new_priority]
                           ELSE heap[i]]
                   ELSE heap
        /\ entry_finder' = IF ok
                           THEN [entry_finder EXCEPT
                                   ![element].pri = new_priority]
                           ELSE entry_finder
        /\ counter' = counter
        /\ Called("change_priority",
                  [NoArg EXCEPT !.el = element, !.pri = new_priority],
                  IF ok THEN "none" ELSE "KeyError")
        /\ got' = NoPri
        /\ IF ok
           THEN Inserted(element, new_priority) /\ changes' = changes + 1
           ELSE UNCHANGED <<added, insSeq, given, changes>>
        /\ UNCHANGED <<goal_description, strategy>>

\* PriorityQueue.change_priority(element, new_priority)
ChangePriority(element, new_priority) ==
    LET q == QueueChangePriority(heap, entry_finder, counter, element,
                                 new_priority)
    IN  /\ q.err = "none" => (Len(heap) < MaxHeap /\ counter < MaxCount)
        /\ heap' = q.heap
        /\ entry_finder' = q.entry_finder
        /\ counter' = q.counter
        /\ Called("change_priority",
                  [NoArg EXCEPT !.el = element, !.pri = new_priority], q.err)
        /\ got' = NoPri
        /\ IF q.err = "none"
           THEN Inserted(element, new_priority) /\ changes' = changes + 1
           ELSE UNCHANGED <<added, insSeq, given, changes>>
        /\ UNCHANGED <<goal_description, strategy>>

\* PriorityQueue.pop(), called as o
PopAs(o) ==
    LET q == QueuePop(heap, entry_finder)
    IN  /\ heap' = q.heap
        /\ entry_finder' = q.entry_finder
        /\ op' = o
        /\ arg' = NoArg
        /\ ret' = IF q.err = "none" THEN Ok(q.val) ELSE Raise(q.err)
        /\ popPri' = q.entry.pri
        /\ skipped' = q.skipped
        /\ popRun' = IF q.err = "none" THEN popRun + 1 ELSE 0
        /\ scen' = ScenNext(o, NoArg)
        /\ added' = added \ {q.val}
        /\ insSeq' = Remove(insSeq, q.val)
        /\ given' = Drop(given, q.val)
        /\ before' = [size |-> Size, heap |-> Len(heap)]
        /\ got' = NoPri
        /\ UNCHANGED <<counter, goal_description, strategy, changes>>

Pop == PopAs("pop")

\* clear that empties the heap and restarts the counter only
ClearQueue_KeepIndex ==
    /\ heap' = <<>>
    /\ entry_finder' = entry_finder
    /\ counter' = 0
    /\ added' = {}
    /\ insSeq' = <<>>
    /\ given' = <<>>
    /\ changes' = 0

\* the assignments of PriorityQueue.clear()
ClearQueue ==
    /\ heap' = <<>>
    /\ entry_finder' = <<>>
    /\ counter' = 0
    /\ added' = {}
    /\ insSeq' = <<>>
    /\ given' = <<>>
    /\ changes' = 0

\* PriorityQueue.clear()
Clear ==
    /\ ClearQueue
    /\ Called("clear", NoArg, "none")
    /\ got' = NoPri
    /\ UNCHANGED <<goal_description, strategy>>

\* prepare that stores the goal and keeps the queue
Prepare_NoClear(goal) ==
    /\ goal_description' = goal
    /\ Called("Frontier.prepare", NoArg, "none")
    /\ got' = NoPri
    /\ UNCHANGED <<heap, entry_finder, counter, added, insSeq, given, changes,
                   strategy>>

\* FrontierBestFirst.prepare(goal)
Prepare(goal) ==
    /\ goal_description' = goal
    /\ ClearQueue
    /\ Called("Frontier.prepare", NoArg, "none")
    /\ got' = NoPri
    /\ UNCHANGED strategy

\* FrontierBestFirst.add(state)
FrontierAdd(state) ==
    LET a == [state EXCEPT !.pri = F(strategy, state)]
    IN  IF ~Contains(state)
        THEN /\ Len(heap) < MaxHeap
             /\ counter < MaxCount
             /\ LET q == QueueAdd(heap, entry_finder, counter, state.el,
                                  F(strategy, state))
                IN  /\ heap' = q.heap
                    /\ entry_finder' = q.entry_finder
                    /\ counter' = q.counter
             /\ Called("Frontier.add", a, "none")
             /\ got' = NoPri
             /\ Inserted(state.el, F(strategy, state))
             /\ UNCHANGED <<goal_description, strategy, changes>>
        ELSE \* the elif condition calls get_priority(self, state) on the
             \* bound method: TypeError, before any comparison or update
             /\ Called("Frontier.add", a, "TypeError")
             /\ got' = NoPri
             /\ UNCHANGED <<heap, entry_finder, counter, added, insSeq, given,
                            changes, goal_description, strategy>>

\* PriorityQueue.get_priority(element), as a call
GetPriorityCall(element) ==
    /\ Called("get_priority", [NoArg EXCEPT !.el = element], "none")
    /\ got' = GetPriority(element)
    /\ UNCHANGED <<heap, entry_finder, counter, goal_description, strategy,
                   added, insSeq, given, changes>>

\* FrontierBestFirst.pop()
FrontierPop == PopAs("Frontier.pop")

\* --------------------------------------------------------- specifications
\* a caller that prepares the frontier and drives its queue, honouring add's
\* precondition (the element is not tracked); change_priority and pop are
\* also called when they fail (change_priority then raises before it reads
\* new_priority, so one value is handed in)
Next ==
    \/ \E element \in States \ DOMAIN entry_finder, priority \in QPris :
            Add(element, priority)
    \/ \E element \in DOMAIN entry_finder, priority \in QPris :
            ChangePriority(element, priority)
    \/ \E element \in States \ DOMAIN entry_finder : ChangePriority(element, 5)
    \/ Pop
    \/ Clear
    \/ \E goal \in Goals : Prepare(goal)

Spec == Init /\ [][Next]_vars

\* the search loop's use of a frontier
NextFrontier ==
    \/ \E goal \in Goals : Prepare(goal)
    \/ \E state \in StateObjs : FrontierAdd(state)
    \/ FrontierPop

SpecFrontier == InitFrontier /\ [][NextFrontier]_vars

\* a PriorityQueue on its own: its six methods, add called on untracked
\* elements only (size is a function of the state, see Size)
NextQueue ==
    \/ \E element \in States \ DOMAIN entry_finder, priority \in QPris :
            Add(element, priority)
    \/ \E element \in DOMAIN entry_finder, priority \in QPris :
            ChangePriority(element, priority)
    \/ \E element \in States \ DOMAIN entry_finder : ChangePriority(element, 5)
    \/ Pop
    \/ Clear
    \/ \E element \in States : GetPriorityCall(element)

SpecQueue == Init /\ [][NextQueue]_vars

\* ================================================================ claims
PopOps == {"pop", "Frontier.pop"}

LiveEntries(h) == {h[i] : i \in {j \in 1..Len(h) : h[j].el # None}}

\* (priority, order-key) pairs in lexicographic order
LexLeq(a, b) == a.pri < b.pri \/ (a.pri = b.pri /\ a.key <= b.key)

Pos(seq, x) == CHOOSE i \in 1..Len(seq) : seq[i] = x

PopSucceeds == op' \in PopOps /\ ret'.err = "none"

\* C1: a pop issued while size() > 0 returns the payload of the live heap
\* entry whose (priority, order-key) pair is lexicographically smallest among
\* the live entries; an invalidated entry is never returned.
C1_PopReturnsSmallestLive ==
    [][(op' \in PopOps /\ Size > 0) =>
          /\ ret'.err = "none"
          /\ ret'.val # None
          /\ \E e \in LiveEntries(heap) :
                /\ e.el = ret'.val
                /\ popPri' = e.pri
                /\ \A e2 \in LiveEntries(heap) : LexLeq(e, e2)]_vars

\* a pop has returned a payload, stepping over an invalidated entry, and left
\* live entries and an invalidated one behind
C1_Witness ==
    /\ op = "pop" /\ ret.err = "none" /\ skipped > 0
    /\ Size >= 1
    /\ \E i \in 1..Len(heap) : heap[i].el = None

\* C2: over successive pops with no insertion in between, the priorities of
\* the entries popped are non-decreasing.
C2_HeapOrder ==
    [][(op \in PopOps /\ ret.err = "none" /\ PopSucceeds) =>
          popPri' >= popPri]_vars

\* three pops in a row, the last one of a higher priority than the lowest
C2_Witness ==
    /\ op = "pop" /\ popRun >= 3
    /\ popPri = 5

\* C3: of two live payloads of equal priority the one inserted later is
\* popped first: when pop returns X, every other live payload of X's
\* priority was inserted before X.
C3_TieBreak ==
    [][PopSucceeds =>
          \A y \in (DOMAIN entry_finder) \ {ret'.val} :
              GetPriority(y) = GetPriority(ret'.val) =>
                  Pos(insSeq, y) < Pos(insSeq, ret'.val)]_vars

\* a pop has returned a payload and left behind a live payload of the same
\* priority and one of another priority
C3_Witness ==
    /\ op = "pop" /\ ret.err = "none"
    /\ \E y \in DOMAIN entry_finder : entry_finder[y].pri = popPri
    /\ \E z \in DOMAIN entry_finder : entry_finder[z].pri # popPri

Min(a, b) == IF a <= b THEN a ELSE b

\* C4: Frontier.add of a state already in the frontier at priority P, with
\* newly computed priority P', leaves the stored priority at min(P, P').
C4_DecreaseOnlyUpdate ==
    [][(op' = "Frontier.add" /\ Contains(arg')) =>
          /\ arg'.el \in DOMAIN entry_finder'
          /\ entry_finder'[arg'.el].pri = Min(GetPriority(arg'.el), arg'.pri)]_vars

\* C5: after Frontier.add of A at 5, B at 3 and A again at 2, size() is 2,
\* the next two pops return A then B, and the frontier is then empty.
C5_ReaddUpdates ==
    /\ scen = 3 => FrontierSize = 2
    /\ scen = 4 => ret = Ok("A")
    /\ scen = 5 => (ret = Ok("B") /\ IsEmpty)

\* C6: size() is the number of distinct states added and not yet popped since
\* the last reset, contains(x) holds exactly of those states, is_empty() holds
\* exactly when there are none, and size() is the number of live heap entries.
C6_IndexConsistency ==
    /\ FrontierSize = Cardinality(added)
    /\ \A x \in StateObjs : Contains(x) <=> x.el \in added
    /\ IsEmpty <=> added = {}
    /\ FrontierSize = Cardinality({i \in 1..Len(heap) : heap[i].el # None})

\* a pop has succeeded, two states stay in the frontier and a third is out
C6_Witness ==
    /\ op = "Frontier.pop" /\ ret.err = "none"
    /\ Cardinality(added) = 2
    /\ ~Contains([el |-> ret.val])

\* C7: clear() and prepare() leave size() at 0 and is_empty() true, and every
\* payload that was present is then not contained and has no priority; a
\* payload not added since the reset is never contained, and no pop returns
\* a payload that was not added since the reset.
C7_ResetIsolation ==
    /\ [][op' \in {"clear", "Frontier.prepare"} =>
             /\ Size' = 0 /\ IsEmpty'
             /\ \A x \in DOMAIN entry_finder :
                   GetPriority(x)' = NoPri /\ ~Contains([el |-> x])']_vars
    /\ [](\A x \in States \ added : ~Contains([el |-> x]))
    /\ [][PopSucceeds => ret'.val \in added]_vars

\* a reset has just dropped live payloads and invalidated entries
C7_Witness ==
    /\ op \in {"clear", "Frontier.prepare"}
    /\ before.size > 0
    /\ before.heap > before.size
    /\ Size = 0

\* C8: pop with size() = 0 raises, returns neither a payload nor an
\* invalidated entry, and leaves size() at 0 and the index empty.
C8_PopEmptyFails ==
    [][(op' \in PopOps /\ Size = 0) =>
          /\ ret' = Raise("IndexError")
          /\ popPri' = NoPri
          /\ Size' = 0
          /\ entry_finder' = <<>>]_vars

\* a pop has failed on a heap that held invalidated entries only
C8_Witness == op = "pop" /\ ret.err = "IndexError" /\ skipped > 0

\* C9: change_priority of a payload the index does not track raises and
\* leaves heap, index and counter as they were.
C9_ChangeUntrackedFails ==
    [][(op' = "change_priority" /\ arg'.el \notin DOMAIN entry_finder) =>
          /\ ret'.err # "none"
          /\ heap' = heap
          /\ entry_finder' = entry_finder
          /\ counter' = counter
          /\ Size' = Size]_vars

\* change_priority has failed on a queue holding other payloads and an
\* invalidated entry
C9_Witness ==
    /\ op = "change_priority" /\ ret.err = "KeyError"
    /\ Size > 0
    /\ \E i \in 1..Len(heap) : heap[i].el = None

\* C10: the priority at which Frontier.add inserts a state is g + h of the
\* class of the frontier.
C10_StrategyCost ==
    [][(op' = "Frontier.add" /\ ret'.err = "none") =>
          entry_finder'[arg'.el].pri = G(strategy, arg') + H(strategy, arg')]_vars

\* C11 (as stated): the generic best-first frontier inserts every state at
\* priority 0, whatever its path cost, and pops in pure LIFO order of
\* insertion.
C11_ZeroPriorityLifo ==
    /\ [][(strategy = "BestFirst" /\ op' = "Frontier.add" /\ ret'.err = "none")
             => entry_finder'[arg'.el].pri = 0]_vars
    /\ [][(strategy = "BestFirst" /\ op' = "Frontier.pop" /\ ret'.err = "none")
             => ret'.val = insSeq[Len(insSeq)]]_vars

\* C11 (amended): for the generic best-first frontier g(state) is the path
\* cost of the state and h(state) is 0, so a state is inserted at its path
\* cost; pop returns a state of least path cost, the one inserted last among
\* those of that cost.
C11_PathCostPriority ==
    [][strategy = "BestFirst" =>
          /\ (op' = "Frontier.add" /\ ret'.err = "none") =>
                /\ G(strategy, arg') = arg'.path_cost
                /\ H(strategy, arg') = 0
                /\ entry_finder'[arg'.el].pri = arg'.path_cost
          /\ (op' = "Frontier.pop" /\ ret'.err = "none") =>
                \A y \in (DOMAIN entry_finder) \ {ret'.val} :
                    \/ GetPriority(y) > GetPriority(ret'.val)
                    \/ /\ GetPriority(y) = GetPriority(ret'.val)
                       /\ Pos(insSeq, y) < Pos(insSeq, ret'.val)]_vars

\* a generic best-first frontier has popped a state that was not the last
\* one inserted: one of higher path cost, inserted later, stays behind
C11_Witness ==
    /\ strategy = "BestFirst"
    /\ op = "Frontier.pop" /\ ret.err = "none"
    /\ popPri = 3
    /\ \E y \in DOMAIN entry_finder :
          entry_finder[y].pri = 5 /\ entry_finder[y].key = -(counter - 1)

\* C12: get_priority(x) never raises; for a tracked x it returns the priority
\* handed in by the latest add or change_priority of x, for an untracked x
\* (never added, popped, or dropped by clear) the not-present value; it leaves
\* heap, index and counter alone, and contains(x) holds exactly when the value
\* returned is not the not-present value.
C12_GetPriority ==
    [][op' = "get_priority" =>
          /\ ret'.err = "none"
          /\ got' = IF arg'.el \in added THEN given[arg'.el] ELSE NoPri
          /\ heap' = heap /\ entry_finder' = entry_finder /\ counter' = counter
          /\ Size' = Size
          /\ Contains(arg') <=> got' # NoPri]_vars

\* get_priority has answered for a payload whose priority was changed (its
\* old entry is still in the heap, invalidated) while another payload, popped
\* or never added, is untracked
C12_Witness ==
    /\ op = "get_priority" /\ got = 3
    /\ \E i \in 1..Len(heap) : heap[i].el = None /\ heap[i].pri = 5
    /\ Size < Cardinality(States)

\* positions of the heap list holding an invalidated entry
Tombstones(h) == {i \in 1..Len(h) : h[i].el = None}

\* C13: each payload in the index maps to an entry that carries this payload
\* and occurs exactly once in the heap, no other heap entry carries the
\* payload (the older entries made for it are invalidated), and every live
\* heap entry is the entry the index holds for its payload.
C13_I1 ==
    /\ \A x \in DOMAIN entry_finder :
          /\ entry_finder[x].el = x
          /\ Cardinality({i \in 1..Len(heap) : heap[i] = entry_finder[x]}) = 1
          /\ Cardinality({i \in 1..Len(heap) : heap[i].el = x}) = 1
    /\ \A i \in 1..Len(heap) :
          heap[i].el # None =>
              /\ heap[i].el \in DOMAIN entry_finder
              /\ entry_finder[heap[i].el] = heap[i]

\* two payloads are tracked and two older entries are in the heap, invalidated
C13_Witness ==
    /\ op = "change_priority" /\ ret.err = "none"
    /\ Size = 2
    /\ Cardinality(Tombstones(heap)) = 2

\* C14: Frontier.add of a state already in the frontier, with a newly
\* computed priority not lower than the stored one, completes normally and
\* leaves heap, index, counter, size() and every stored priority unchanged.
C14_NoOpReadd ==
    [][(op' = "Frontier.add" /\ Contains(arg')
            /\ arg'.pri >= GetPriority(arg'.el)) =>
          /\ ret'.err = "none"
          /\ heap' = heap
          /\ entry_finder' = entry_finder
          /\ counter' = counter
          /\ Size' = Size]_vars

\* the queue as PriorityQueue() constructs it
Fresh == heap = <<>> /\ entry_finder = <<>> /\ counter = 0

\* C15: clear() and prepare() leave the queue in the state of a newly
\* constructed one (empty heap, empty index, counter 0), whatever came
\* before, so the calls that follow give what they give on a new queue: the
\* first add makes the entry with order-key 0 and sets the counter to 1, pop
\* and change_priority raise, size() is 0 and get_priority finds nothing.
C15_ClearedIsFresh ==
    /\ [][op' \in {"clear", "Frontier.prepare"} => Fresh']_vars
    /\ [][(op \in {"clear", "Frontier.prepare"} /\ op' = "add") =>
             LET e == [pri |-> arg'.pri, key |-> 0, el |-> arg'.el]
             IN  /\ heap' = <<e>>
                 /\ entry_finder' = Put(<<>>, arg'.el, e)
                 /\ counter' = 1]_vars
    /\ [][(op \in {"clear", "Frontier.prepare"} /\ op' \in PopOps) =>
             (ret' = Raise("IndexError") /\ Fresh')]_vars
    /\ [][(op \in {"clear", "Frontier.prepare"} /\ op' = "change_priority") =>
             (ret' = Raise("KeyError") /\ Fresh')]_vars
    /\ [](op \in {"clear", "Frontier.prepare"} =>
             (Size = 0 /\ \A x \in States : GetPriority(x) = NoPri))

\* a frontier that has been prepared holds, after a reset, the single entry
\* of the first add, which drew order-key 0 again
C15_Witness ==
    /\ goal_description # None
    /\ op = "add" /\ before.heap = 0
    /\ counter = 1 /\ Len(heap) = 1 /\ heap[1].key = 0

\* C16: change_priority(x, p) on a tracked x leaves x's old entry in the
\* heap with its payload cleared, pushes a new entry for x with priority p and
\* the next counter value, and keeps size() and the set of tracked payloads;
\* then get_priority(x) = p and x counts as inserted last: its order-key is
\* below that of every other tracked payload, and a pop that follows and
\* returns a payload of priority p returns x.
C16_ChangePriority ==
    /\ [][(op' = "change_priority" /\ arg'.el \in DOMAIN entry_finder) =>
             LET x == arg'.el
                 old == entry_finder[x]
                 new == [pri |-> arg'.pri, key |-> -counter, el |-> x]
             IN  /\ ret'.err = "none"
                 /\ Len(heap') = Len(heap) + 1
                 /\ \E i \in 1..Len(heap') : heap'[i] = [old EXCEPT !.el = None]
                 /\ Cardinality(Tombstones(heap')) =
                        Cardinality(Tombstones(heap)) + 1
                 /\ \E i \in 1..Len(heap') : heap'[i] = new
                 /\ entry_finder'[x] = new
                 /\ counter' = counter + 1
                 /\ Size' = Size
                 /\ DOMAIN entry_finder' = DOMAIN entry_finder
                 /\ \A z \in States : z = x => GetPriority(z)' = arg'.pri
                 /\ insSeq'[Len(insSeq')] = x
                 /\ \A y \in (DOMAIN entry_finder) \ {x} :
                       /\ entry_finder'[y] = entry_finder[y]
                       /\ new.key < entry_finder[y].key]_vars
    /\ [][(op = "change_priority" /\ ret.err = "none" /\ PopSucceeds
              /\ popPri' = arg.pri) => ret'.val = arg.el]_vars

\* the priority of a payload has been changed to that of another tracked
\* payload which was inserted after it
C16_Witness ==
    /\ op = "change_priority" /\ ret.err = "none"
    /\ \E y \in (DOMAIN entry_finder) \ {arg.el} :
          /\ entry_finder[y].pri = arg.pri
          /\ \E i \in Tombstones(heap) : heap[i].key > entry_finder[y].key

\* C17: the length of the heap list is size() plus the number of invalidated
\* entries, and that number is at most the number of change_priority calls
\* done since the last clear; pop never raises it and add leaves it alone.
C17_TombstoneBound ==
    /\ [](/\ Len(heap) = Size + Cardinality(Tombstones(heap))
          /\ Cardinality(Tombstones(heap)) <= changes)
    /\ [][op' \in PopOps =>
             Cardinality(Tombstones(heap')) <= Cardinality(Tombstones(heap))]_vars
    /\ [][op' = "add" =>
             Cardinality(Tombstones(heap')) = Cardinality(Tombstones(heap))]_vars

\* after two changes of priority a pop has discarded one of the two
\* invalidated entries; the other is still in the heap
C17_Witness ==
    /\ op = "pop" /\ skipped = 1
    /\ changes = 2
    /\ Cardinality(Tombstones(heap)) = 1

\* C18: with add called on untracked payloads only, a pop issued while
\* size() > 0 returns a tracked payload, lowers size() by exactly 1 and takes
\* just that payload out of the index, after removing from the heap the
\* entry returned and the invalidated entries above it; a pop fails only at
\* size() = 0.  So a run of pops on a queue of size n succeeds n times, each
\* payload coming out once, and leaves the queue empty.
C18_PopDrains ==
    /\ [][(op' \in PopOps /\ Size > 0) =>
             /\ ret'.err = "none"
             /\ ret'.val # None
             /\ ret'.val \in DOMAIN entry_finder
             /\ Size' = Size - 1
             /\ DOMAIN entry_finder' = (DOMAIN entry_finder) \ {ret'.val}
             /\ Len(heap') = Len(heap) - 1 - skipped'
             /\ popRun' = popRun + 1]_vars
    /\ [][(op' \in PopOps /\ ret'.err # "none") => Size = 0]_vars
    /\ [][(op' \in PopOps /\ Size = 1) => IsEmpty']_vars

\* a queue of three payloads has been drained by three pops in a row; an
\* invalidated entry is all that is left in the heap
C18_Witness ==
    /\ op = "pop" /\ ret.err = "none"
    /\ popRun = 3
    /\ IsEmpty
    /\ Len(heap) = 1

\* C19: over prepare / add / pop calls on a frontier, PriorityQueue.add runs
\* (a counter value is drawn, the heap grows) only for a state the index does
\* not track, PriorityQueue.change_priority runs only for a state it tracks,
\* and no two live heap entries carry the same state.
C19_FrontierKeepsPreconditions ==
    /\ [][(counter' = counter + 1 \/ Len(heap') > Len(heap)) =>
             /\ op' = "Frontier.add"
             /\ changes' = changes => arg'.el \notin DOMAIN entry_finder
             /\ changes' # changes => arg'.el \in DOMAIN entry_finder]_vars
    /\ [](\A i, j \in 1..Len(heap) :
             (i # j /\ heap[i].el # None) => heap[i].el # heap[j].el)

\* a state has been added after a pop, next to a state that is still in the
\* frontier
C19_Witness ==
    /\ op = "Frontier.add" /\ ret.err = "none"
    /\ Size = 2
    /\ counter = 3
    /\ entry_finder[arg.el].key = -2

\* C20: between two resets every insertion (add, and the one inside
\* change_priority) draws the next counter value, starting from 0, so the
\* order-keys of the heap entries, live or invalidated, are the negations of
\* pairwise distinct values below the counter; two heap entries never tie
\* on (priority, order-key) and the list order decides without the payload.
C20_I4 ==
    /\ [](\A i, j \in 1..Len(heap) :
             /\ -heap[i].key \in 0..(counter - 1)
             /\ i # j =>
                   /\ heap[i].key # heap[j].key
                   /\ EntryLt(heap[i], heap[j]) \/ EntryLt(heap[j], heap[i]))
    /\ [][(op' \in {"add", "change_priority"} /\ ret'.err = "none") =>
             /\ entry_finder'[arg'.el].key = -counter
             /\ counter' = counter + 1]_vars
    /\ [][\/ counter' = counter
          \/ counter' = counter + 1
          \/ counter' = 0 /\ op' \in {"clear", "Frontier.prepare"}]_vars

\* four counter values have been drawn; the heap holds an invalidated entry
\* and two entries of one priority
C20_Witness ==
    /\ counter = 4
    /\ Len(heap) = 4
    /\ Tombstones(heap) # {}
    /\ \E i, j \in 1..Len(heap) : i # j /\ heap[i].pri = heap[j].pri

====
